---- MODULE Spec2Model ----
(***************************************************************************)
(* Model of the validity-sens USB driver (driver/src/usb.rs, lib.rs).      *)
(* One Device Session is followed from open() to its destruction.  Every   *)
(* API call is one action; the outcomes of the transport primitives        *)
(* (rusb write_bulk / read_bulk / reset / open) are the inputs.            *)
(***************************************************************************)
EXTENDS Integers, Sequences, FiniteSets, TLC

\* ---------------------------------------------------------------- bounds
\* capacity of the response buffer of send_init (1024 in the source)
BufLen     == 2
\* capacity of the response buffer the caller passes to cmd
MaxCap     == 2
\* capacity of the response buffer run_and_check is applied to on its own
RcCap      == 3
\* most devices on the bus
MaxDevs    == 2
\* longest request passed to cmd
MaxData    == 2
\* API calls made on one session before it is destroyed
MaxOps     == 3

\* ------------------------------------------------------- program constants
\* write_bulk endpoint
EP_OUT      == 1
\* read_bulk endpoint
EP_IN       == 129
\* 0x01
INIT_CMD_1  == 1
\* 0x19
INIT_CMD_2  == 25
\* 0x44f
SIG_FAILED  == 1103
\* Duration::from_secs(1)
OPEN_TIMEOUT == 1

\* Byte values explored in the status field (the first two bytes of a
\* response): enough to build the status codes 0, 0x044f and others
Byte == {0, 4, 79}

\* Byte value explored after the status field
PayloadByte == {170}

\* default_timeout values (seconds) the caller may assign
Timeouts == {1, 2}

\* rusb::Error kinds a transfer may fail with ("None" = no failure)
Failure == {"Timeout", "Io"}

SeqsUpTo(n) == UNION {[1..k -> Byte \cup PayloadByte] : k \in 0..n}

\* the responses of at most n bytes the device is made to send
Responses(n) ==
    {s \in SeqsUpTo(n) :
        \A i \in 1..Len(s) : IF i <= 2 THEN s[i] \in Byte ELSE s[i] \in PayloadByte}

Zeros(n) == [i \in 1..n |-> 0]

\* ------------------------------------------------------- transport calls
\* a call of a transport primitive with its arguments and what it reported:
\* err = "None" and n bytes transferred, or the rusb::Error kind
Call(fn, ep, data, cap, timeout, err, n) ==
    [fn |-> fn, ep |-> ep, data |-> data, cap |-> cap, timeout |-> timeout,
     err |-> err, n |-> n]

WriteCall(data, timeout, w) == Call("write_bulk", EP_OUT, data, 0, timeout, w.err, w.n)
ReadCall(cap, timeout, r)   == Call("read_bulk", EP_IN, <<>>, cap, timeout, r.err, Len(r.bytes))
ResetCall(fails)            == Call("reset", 0, <<>>, 0, 0, IF fails THEN "Io" ELSE "None", 0)
CloseCall                   == Call("close", 0, <<>>, 0, 0, "None", 0)

\* Outcome of write_bulk: Err(kind) or Ok(n), n <= len(data)
WriteOutcomes(data) ==
    [err : Failure, n : {0}] \cup [err : {"None"}, n : 0..Len(data)]

\* Outcome of read_bulk: Err(kind) or Ok(len(bytes)), bytes stored in the buffer
ReadOutcomes(cap) ==
    [err : Failure, bytes : {<<>>}] \cup [err : {"None"}, bytes : Responses(cap)]

NoRead == [err |-> "Io", bytes |-> <<>>]

\* ------------------------------------------------------- Result values
Ok(n)          == [tag |-> "Ok", n |-> n, src |-> "None"]
Err(e, n, src) == [tag |-> e, n |-> n, src |-> src]

\* the buffer after read_bulk stored `bytes` at its start
Store(out, bytes) ==
    [i \in 1..Len(out) |-> IF i <= Len(bytes) THEN bytes[i] ELSE out[i]]

Count(io, fn) == Cardinality({i \in 1..Len(io) : io[i].fn = fn})

CountOk(io, fn) == Cardinality({i \in 1..Len(io) : io[i].fn = fn /\ io[i].err = "None"})

\* ------------------------------------------------------- OpenedUsbDevice
\* faulty variant: the length of the write is not compared with the request
cmd_ignorePartial(data, out, timeout, w, r) ==
    IF w.err # "None"
    THEN [ret |-> Err("UsbWrite", 0, w.err), out |-> out,
          io |-> <<WriteCall(data, timeout, w)>>]
    ELSE IF r.err # "None"
    THEN [ret |-> Err("UsbReadResponse", 0, r.err), out |-> out,
          io |-> <<WriteCall(data, timeout, w), ReadCall(Len(out), timeout, r)>>]
    ELSE [ret |-> Ok(Len(r.bytes)), out |-> Store(out, r.bytes),
          io |-> <<WriteCall(data, timeout, w), ReadCall(Len(out), timeout, r)>>]

\* faulty variant: the capacity of the buffer is returned instead of the length read
cmd_returnsCap(data, out, timeout, w, r) ==
    IF w.err # "None"
    THEN [ret |-> Err("UsbWrite", 0, w.err), out |-> out,
          io |-> <<WriteCall(data, timeout, w)>>]
    ELSE IF Len(data) # w.n
    THEN [ret |-> Err("UsbWritePartial", 0, "None"), out |-> out,
          io |-> <<WriteCall(data, timeout, w)>>]
    ELSE IF r.err # "None"
    THEN [ret |-> Err("UsbReadResponse", 0, r.err), out |-> out,
          io |-> <<WriteCall(data, timeout, w), ReadCall(Len(out), timeout, r)>>]
    ELSE [ret |-> Ok(Len(out)), out |-> Store(out, r.bytes),
          io |-> <<WriteCall(data, timeout, w), ReadCall(Len(out), timeout, r)>>]

\* faulty variant: the device is reset when a transfer fails
cmd_resetOnError(data, out, timeout, w, r) ==
    IF w.err # "None"
    THEN [ret |-> Err("UsbWrite", 0, w.err), out |-> out,
          io |-> <<WriteCall(data, timeout, w), ResetCall(FALSE)>>]
    ELSE IF Len(data) # w.n
    THEN [ret |-> Err("UsbWritePartial", 0, "None"), out |-> out,
          io |-> <<WriteCall(data, timeout, w)>>]
    ELSE IF r.err # "None"
    THEN [ret |-> Err("UsbReadResponse", 0, r.err), out |-> out,
          io |-> <<WriteCall(data, timeout, w), ReadCall(Len(out), timeout, r),
                   ResetCall(FALSE)>>]
    ELSE [ret |-> Ok(Len(r.bytes)), out |-> Store(out, r.bytes),
          io |-> <<WriteCall(data, timeout, w), ReadCall(Len(out), timeout, r)>>]

\* cmd(&self, data, out): write on endpoint 1, then read on endpoint 129
cmd(data, out, timeout, w, r) ==
    IF w.err # "None"
    THEN [ret |-> Err("UsbWrite", 0, w.err), out |-> out,
          io |-> <<WriteCall(data, timeout, w)>>]
    ELSE IF Len(data) # w.n
    THEN [ret |-> Err("UsbWritePartial", 0, "None"), out |-> out,
          io |-> <<WriteCall(data, timeout, w)>>]
    ELSE IF r.err # "None"
    THEN [ret |-> Err("UsbReadResponse", 0, r.err), out |-> out,
          io |-> <<WriteCall(data, timeout, w), ReadCall(Len(out), timeout, r)>>]
    ELSE [ret |-> Ok(Len(r.bytes)), out |-> Store(out, r.bytes),
          io |-> <<WriteCall(data, timeout, w), ReadCall(Len(out), timeout, r)>>]

\* faulty variant: the two bytes are read most significant first
from_be_bytes(b) == (256 * b[1] + b[2]) % 65536

\* u16::from_le_bytes
from_le_bytes(b) == (b[1] + 256 * b[2]) % 65536

\* faulty variant: the status is taken from the whole buffer, not from resp[..res]
run_and_check_noslice(c, resp, timeout, w, r) ==
    LET res   == cmd(c, resp, timeout, w, r)
        shrt  == from_le_bytes(res.out)
    IN  IF res.ret.tag # "Ok" THEN res
        ELSE IF Len(res.out) < 2
        THEN [res EXCEPT !.ret = Err("UsbInitInvalid", 0, "None")]
        ELSE IF shrt # 0 /\ shrt = SIG_FAILED
        THEN [res EXCEPT !.ret = Err("UsbInitSignatureFailed", shrt, "None")]
        ELSE IF shrt # 0
        THEN [res EXCEPT !.ret = Err("UsbInitFailed", shrt, "None")]
        ELSE res

\* run_and_check(&self, cmd, resp)
run_and_check(c, resp, timeout, w, r) ==
    LET res   == cmd(c, resp, timeout, w, r)
        slice == IF res.ret.tag = "Ok" THEN SubSeq(res.out, 1, res.ret.n) ELSE <<>>
        shrt  == from_le_bytes(slice)
    IN  IF res.ret.tag # "Ok" THEN res
        ELSE IF Len(slice) < 2
        THEN [res EXCEPT !.ret = Err("UsbInitInvalid", 0, "None")]
        ELSE IF shrt # 0 /\ shrt = SIG_FAILED
        THEN [res EXCEPT !.ret = Err("UsbInitSignatureFailed", shrt, "None")]
        ELSE IF shrt # 0
        THEN [res EXCEPT !.ret = Err("UsbInitFailed", shrt, "None")]
        ELSE res

\* one command as recorded in the history: its result, the buffer it leaves
\* and the length read_bulk reported (-1: no read succeeded)
Step(c, res) ==
    [cmd |-> c, ret |-> res.ret, buf |-> res.out,
     rdlen |-> IF Len(res.io) = 2 /\ res.io[2].err = "None" THEN res.io[2].n ELSE -1]

\* faulty variant: the result of the first command is discarded
send_init_noStop(timeout, w1, r1, w2, r2) ==
    LET buf   == Zeros(BufLen)
        first == run_and_check(<<INIT_CMD_1>>, buf, timeout, w1, r1)
        secnd == run_and_check(<<INIT_CMD_2>>, first.out, timeout, w2, r2)
    IN  [ret |-> IF secnd.ret.tag # "Ok" THEN secnd.ret ELSE Ok(0),
         io |-> first.io \o secnd.io,
         steps |-> <<Step(<<INIT_CMD_1>>, first), Step(<<INIT_CMD_2>>, secnd)>>]

\* faulty variant: the result of the second command is discarded
send_init_ignoresSecond(timeout, w1, r1, w2, r2) ==
    LET buf   == Zeros(BufLen)
        first == run_and_check(<<INIT_CMD_1>>, buf, timeout, w1, r1)
        secnd == run_and_check(<<INIT_CMD_2>>, first.out, timeout, w2, r2)
    IN  IF first.ret.tag # "Ok"
        THEN [ret |-> first.ret, io |-> first.io,
              steps |-> <<Step(<<INIT_CMD_1>>, first)>>]
        ELSE [ret |-> Ok(0), io |-> first.io \o secnd.io,
              steps |-> <<Step(<<INIT_CMD_1>>, first),
                          Step(<<INIT_CMD_2>>, secnd)>>]

\* send_init(&self): [0x01] then [0x19] on one zeroed buffer, `?` after each
send_init(timeout, w1, r1, w2, r2) ==
    LET buf   == Zeros(BufLen)
        first == run_and_check(<<INIT_CMD_1>>, buf, timeout, w1, r1)
        secnd == run_and_check(<<INIT_CMD_2>>, first.out, timeout, w2, r2)
    IN  IF first.ret.tag # "Ok"
        THEN [ret |-> first.ret, io |-> first.io,
              steps |-> <<Step(<<INIT_CMD_1>>, first)>>]
        ELSE IF secnd.ret.tag # "Ok"
        THEN [ret |-> secnd.ret, io |-> first.io \o secnd.io,
              steps |-> <<Step(<<INIT_CMD_1>>, first),
                          Step(<<INIT_CMD_2>>, secnd)>>]
        ELSE [ret |-> Ok(0), io |-> first.io \o secnd.io,
              steps |-> <<Step(<<INIT_CMD_1>>, first),
                          Step(<<INIT_CMD_2>>, secnd)>>]

\* faulty variant: no early return when reset_called is already set
reset_always(rc, fails) ==
    IF fails
    THEN [ret |-> Err("UsbReset", 0, "Io"), reset_called |-> rc, io |-> <<ResetCall(TRUE)>>]
    ELSE [ret |-> Ok(0), reset_called |-> TRUE, io |-> <<ResetCall(FALSE)>>]

\* faulty variant: the flag is set before the result of hnd.reset() is examined
reset_setsFlag(rc, fails) ==
    IF rc
    THEN [ret |-> Ok(0), reset_called |-> rc, io |-> <<>>]
    ELSE IF fails
    THEN [ret |-> Err("UsbReset", 0, "Io"), reset_called |-> TRUE, io |-> <<ResetCall(TRUE)>>]
    ELSE [ret |-> Ok(0), reset_called |-> TRUE, io |-> <<ResetCall(FALSE)>>]

\* faulty variant: the flag is assigned the outcome of every call
reset_assign(rc, fails) ==
    IF fails
    THEN [ret |-> Err("UsbReset", 0, "Io"), reset_called |-> FALSE, io |-> <<ResetCall(TRUE)>>]
    ELSE [ret |-> Ok(0), reset_called |-> TRUE, io |-> <<ResetCall(FALSE)>>]

\* faulty variant: the flag is never set
reset_noFlag(rc, fails) ==
    IF rc
    THEN [ret |-> Ok(0), reset_called |-> rc, io |-> <<>>]
    ELSE IF fails
    THEN [ret |-> Err("UsbReset", 0, "Io"), reset_called |-> rc, io |-> <<ResetCall(TRUE)>>]
    ELSE [ret |-> Ok(0), reset_called |-> rc, io |-> <<ResetCall(FALSE)>>]

\* reset(&mut self); fails = outcome of hnd.reset()
reset(rc, fails) ==
    IF rc
    THEN [ret |-> Ok(0), reset_called |-> rc, io |-> <<>>]
    ELSE IF fails
    THEN [ret |-> Err("UsbReset", 0, "Io"), reset_called |-> rc, io |-> <<ResetCall(TRUE)>>]
    ELSE [ret |-> Ok(0), reset_called |-> TRUE, io |-> <<ResetCall(FALSE)>>]

\* faulty variant: the destructor releases the handle without resetting
drop_noreset(rc, fails) ==
    [panicked |-> FALSE, reset_called |-> rc, ret |-> Ok(0), io |-> <<CloseCall>>]

\* faulty variant: the destructor tries the reset a second time when it fails
drop_retry(rc, fails) ==
    LET res  == reset(rc, fails)
        res2 == reset(res.reset_called, fails)
    IN  [panicked |-> res2.ret.tag # "Ok", reset_called |-> res2.reset_called,
         ret |-> res2.ret, io |-> res.io \o res2.io \o <<CloseCall>>]

\* faulty variant: the handle is released before the reset
drop_closeFirst(rc, fails) ==
    LET res == reset(rc, fails)
    IN  [panicked |-> res.ret.tag # "Ok", reset_called |-> res.reset_called,
         ret |-> res.ret, io |-> <<CloseCall>> \o res.io]

\* faulty variant: the result of reset() is discarded
drop_swallow(rc, fails) ==
    LET res == reset(rc, fails)
    IN  [panicked |-> FALSE, reset_called |-> res.reset_called,
         ret |-> res.ret, io |-> res.io \o <<CloseCall>>]

\* Drop for OpenedUsbDevice: self.reset().expect(..), then the fields are
\* dropped (also while the panic unwinds), which closes the DeviceHandle
drop(rc, fails) ==
    LET res == reset(rc, fails)
    IN  [panicked |-> res.ret.tag # "Ok", reset_called |-> res.reset_called,
         ret |-> res.ret, io |-> res.io \o <<CloseCall>>]

\* faulty variant: the session is created with the flag set
open_flagSet(fails) ==
    IF fails
    THEN [ret |-> Err("OpenDevice", 0, "Io"), live |-> FALSE,
          reset_called |-> FALSE, default_timeout |-> 0]
    ELSE [ret |-> Ok(0), live |-> TRUE,
          reset_called |-> TRUE, default_timeout |-> OPEN_TIMEOUT]

\* UsbDevice::open
open(fails) ==
    IF fails
    THEN [ret |-> Err("OpenDevice", 0, "Io"), live |-> FALSE,
          reset_called |-> FALSE, default_timeout |-> 0]
    ELSE [ret |-> Ok(0), live |-> TRUE,
          reset_called |-> FALSE, default_timeout |-> OPEN_TIMEOUT]

\* ------------------------------------------------------- Device Matcher
\* SUPPORTED: (vendor, product) = (0x138a, 0x0097)
SUPPORTED == <<<<5002, 151>>>>

\* identities explored: the supported one and a mismatch on either field
VendorIds  == {5002, 1}
ProductIds == {151, 1}
BusNumbers == {1, 2}
Addresses  == {1, 2}

\* a device as rusb::devices() lists it; desc_ok: device_descriptor() succeeds
Devices ==
    [bus : BusNumbers, addr : Addresses, vid : VendorIds, pid : ProductIds,
     desc_ok : BOOLEAN]

\* bus contents: at most MaxDevs devices, no two at the same (bus, address)
Buses ==
    {b \in UNION {[1..k -> Devices] : k \in 0..MaxDevs} :
        \A i, j \in 1..Len(b) :
            (b[i].bus = b[j].bus /\ b[i].addr = b[j].addr) => i = j}

\* faulty variant: only the vendor id is compared
is_supported_vendorOnly(dev) ==
    \E i \in 1..Len(SUPPORTED) : dev.vid = SUPPORTED[i][1]

\* for (vid, pid) in SUPPORTED { if desc.vendor_id() == *vid && desc.product_id() == *pid
is_supported(dev) ==
    \E i \in 1..Len(SUPPORTED) :
        dev.vid = SUPPORTED[i][1] /\ dev.pid = SUPPORTED[i][2]

\* result of a matcher call: devs = the handles returned, descs = the number of
\* device_descriptor() calls made
Found(ret, devs, descs) == [ret |-> ret, devs |-> devs, descs |-> descs]

RECURSIVE list_skipFailed_from(_, _, _)
list_skipFailed_from(devs, i, res) ==
    IF i > Len(devs) THEN Found(Ok(Len(res)), res, Len(devs))
    ELSE IF ~devs[i].desc_ok THEN list_skipFailed_from(devs, i + 1, res)
    ELSE IF is_supported(devs[i])
    THEN list_skipFailed_from(devs, i + 1, Append(res, devs[i]))
    ELSE list_skipFailed_from(devs, i + 1, res)

\* faulty variant: a device whose descriptor cannot be read is skipped
list_skipFailed(devs, enum_fails) ==
    IF enum_fails THEN Found(Err("ListDevices", 0, "Io"), <<>>, 0)
    ELSE list_skipFailed_from(devs, 1, <<>>)

\* the loop of list_supported_devices from device i on, res = the Vec so far
RECURSIVE list_from(_, _, _)
list_from(devs, i, res) ==
    IF i > Len(devs) THEN Found(Ok(Len(res)), res, Len(devs))
    ELSE IF ~devs[i].desc_ok THEN Found(Err("DeviceDescription", 0, "Io"), <<>>, i)
    ELSE IF is_supported(devs[i]) THEN list_from(devs, i + 1, Append(res, devs[i]))
    ELSE list_from(devs, i + 1, res)

\* list_supported_devices(); enum_fails = rusb::devices() fails
list_supported_devices(devs, enum_fails) ==
    IF enum_fails THEN Found(Err("ListDevices", 0, "Io"), <<>>, 0)
    ELSE list_from(devs, 1, <<>>)

RECURSIVE get_skipUnsupported_from(_, _, _, _)
get_skipUnsupported_from(devs, i, busnum, addr) ==
    IF i > Len(devs) THEN Found(Err("GetDeviceNotFound", 0, "None"), <<>>, 0)
    ELSE IF devs[i].bus # busnum \/ devs[i].addr # addr
    THEN get_skipUnsupported_from(devs, i + 1, busnum, addr)
    ELSE IF ~devs[i].desc_ok THEN Found(Err("DeviceDescription", 0, "Io"), <<>>, 1)
    ELSE IF is_supported(devs[i]) THEN Found(Ok(0), <<devs[i]>>, 1)
    ELSE get_skipUnsupported_from(devs, i + 1, busnum, addr)

\* faulty variant: an unsupported device at the address is passed over
get_skipUnsupported(devs, enum_fails, busnum, addr) ==
    IF enum_fails THEN Found(Err("ListDevices", 0, "Io"), <<>>, 0)
    ELSE get_skipUnsupported_from(devs, 1, busnum, addr)

\* the loop of get_device from device i on
RECURSIVE get_from(_, _, _, _)
get_from(devs, i, busnum, addr) ==
    IF i > Len(devs) THEN Found(Err("GetDeviceNotFound", 0, "None"), <<>>, 0)
    ELSE IF devs[i].bus # busnum \/ devs[i].addr # addr
    THEN get_from(devs, i + 1, busnum, addr)
    ELSE IF ~devs[i].desc_ok THEN Found(Err("DeviceDescription", 0, "Io"), <<>>, 1)
    ELSE IF is_supported(devs[i]) THEN Found(Ok(0), <<devs[i]>>, 1)
    ELSE Found(Err("GetDeviceFoundUnsupported", 0, "None"), <<>>, 1)

\* get_device(busnum, addr); enum_fails = rusb::devices() fails
get_device(devs, enum_fails, busnum, addr) ==
    IF enum_fails THEN Found(Err("ListDevices", 0, "Io"), <<>>, 0)
    ELSE get_from(devs, 1, busnum, addr)

\* ------------------------------------------------------------------ state
VARIABLES
    session,          \* "unopened", "live", "closed" (dropped), "panicked" (drop panicked)
    reset_called,     \* OpenedUsbDevice.reset_called
    default_timeout,  \* OpenedUsbDevice.default_timeout, in seconds
    last,             \* the last API call: operation, pre-state, result, transport calls
    prev,             \* summary of the API call before it
    nReset,           \* invocations of the transport's reset primitive so far
    nResetOk,         \* of which succeeded
    nClose,           \* releases of the connection handle so far
    manual,           \* reset() has been called by the caller
    nOps,             \* API calls made so far
    bus,              \* the devices rusb::devices() lists, in its order
    found             \* the last matcher call: arguments and result

vars == <<session, reset_called, default_timeout, last, prev,
          nReset, nResetOk, nClose, manual, nOps, bus, found>>

\* no matcher call made
NoFound == [op |-> "none", enum_ok |-> TRUE, busnum |-> 0, addr |-> 0,
            ret |-> Ok(0), devs |-> <<>>, descs |-> 0]

NoSteps == <<>>

Rec(op, data, pre, res, steps) ==
    [op |-> op, data |-> data, pre_rc |-> pre, ret |-> res.ret, io |-> res.io,
     steps |-> steps, timeout |-> default_timeout]

Summary(l) == [op |-> l.op, ok |-> l.ret.tag = "Ok", resets |-> Count(l.io, "reset")]

NoCall == [op |-> "none", data |-> <<>>, pre_rc |-> FALSE, ret |-> Ok(0), io |-> <<>>,
           steps |-> NoSteps, timeout |-> 0]

Requests == {[i \in 1..k |-> INIT_CMD_1] : k \in {1, MaxData}}

\* bookkeeping shared by every API call
Record(l) ==
    /\ last' = l
    /\ prev' = Summary(last)
    /\ nReset' = nReset + Count(l.io, "reset")
    /\ nResetOk' = nResetOk + CountOk(l.io, "reset")
    /\ nClose' = nClose + Count(l.io, "close")
    /\ nOps' = nOps + 1
    /\ UNCHANGED <<bus, found>>

Init ==
    /\ session = "unopened"
    /\ reset_called = FALSE
    /\ default_timeout = 0
    /\ last = NoCall
    /\ prev = Summary(NoCall)
    /\ nReset = 0
    /\ nResetOk = 0
    /\ nClose = 0
    /\ manual = FALSE
    /\ nOps = 0
    /\ bus = <<>>
    /\ found = NoFound

\* UsbDevice::open(): a failed open creates no session
Open ==
    /\ session = "unopened"
    /\ nOps < MaxOps
    /\ \E fails \in BOOLEAN :
         LET res == open(fails)
         IN  /\ session' = IF res.live THEN "live" ELSE "unopened"
             /\ reset_called' = res.reset_called
             /\ default_timeout' = res.default_timeout
             /\ Record([NoCall EXCEPT !.op = "open", !.ret = res.ret,
                                      !.timeout = res.default_timeout])
    /\ UNCHANGED manual

\* the caller assigns the public field default_timeout
SetTimeout ==
    /\ session = "live"
    /\ \E t \in Timeouts :
         /\ t # default_timeout
         /\ default_timeout' = t
    /\ UNCHANGED <<session, reset_called, last, prev, nReset, nResetOk, nClose,
                   manual, nOps, bus, found>>

Cmd ==
    /\ session = "live"
    /\ nOps < MaxOps
    /\ \E data \in Requests, cap \in {MaxCap} :
       \E w \in WriteOutcomes(data) :
       \E r \in IF w.err = "None" /\ w.n = Len(data) THEN ReadOutcomes(cap) ELSE {NoRead} :
         LET res == cmd(data, Zeros(cap), default_timeout, w, r)
         IN  Record(Rec("cmd", data, reset_called, res,
                        <<Step(data, res)>>))
    /\ UNCHANGED <<session, reset_called, default_timeout, manual>>

FirstOk(w, r) ==
    run_and_check(<<INIT_CMD_1>>, Zeros(BufLen), default_timeout, w, r).ret.tag = "Ok"

InitOutcomes(c) ==
    {o \in WriteOutcomes(c) \X ReadOutcomes(BufLen) :
        (o[1].err # "None" \/ o[1].n # Len(c)) => o[2] = NoRead}

SendInit ==
    /\ session = "live"
    /\ nOps < MaxOps
    /\ \E o1 \in InitOutcomes(<<INIT_CMD_1>>) :
       \E o2 \in IF FirstOk(o1[1], o1[2]) THEN InitOutcomes(<<INIT_CMD_2>>)
                 ELSE {<<[err |-> "Io", n |-> 0], NoRead>>} :
         LET res == send_init(default_timeout, o1[1], o1[2], o2[1], o2[2])
         IN  Record(Rec("send_init", <<>>, reset_called, res, res.steps))
    /\ UNCHANGED <<session, reset_called, default_timeout, manual>>

Reset ==
    /\ session = "live"
    /\ nOps < MaxOps
    /\ \E fails \in BOOLEAN :
         LET res == reset(reset_called, fails)
         IN  /\ reset_called' = res.reset_called
             /\ Record(Rec("reset", <<>>, reset_called, res, NoSteps))
    /\ manual' = TRUE
    /\ UNCHANGED <<session, default_timeout>>

\* end of scope of the session
Drop ==
    /\ session = "live"
    /\ \E fails \in BOOLEAN :
         LET res == drop(reset_called, fails)
         IN  /\ reset_called' = res.reset_called
             /\ session' = IF res.panicked THEN "panicked" ELSE "closed"
             /\ Record(Rec("drop", <<>>, reset_called, res, NoSteps))
    /\ UNCHANGED <<default_timeout, manual>>

Next == Open \/ SetTimeout \/ Cmd \/ SendInit \/ Reset \/ Drop

Spec == Init /\ [][Next]_vars

\* ------------------------------------------- run_and_check on its own
\* run_and_check is private and send_init only passes it a buffer of BufLen
\* bytes; here it is applied once to every command, stale buffer content and
\* transport outcome, on a live session.
InitRC ==
    /\ session = "live"
    /\ reset_called = FALSE
    /\ default_timeout \in Timeouts
    /\ last = NoCall
    /\ prev = Summary(NoCall)
    /\ nReset = 0
    /\ nResetOk = 0
    /\ nClose = 0
    /\ manual = FALSE
    /\ nOps = 0
    /\ bus = <<>>
    /\ found = NoFound

RunAndCheck ==
    /\ session = "live"
    /\ nOps = 0
    /\ \E c \in {<<INIT_CMD_1>>, <<INIT_CMD_2>>}, resp \in [1..RcCap -> Byte] :
       \E w \in WriteOutcomes(c) :
       \E r \in IF w.err = "None" /\ w.n = Len(c) THEN ReadOutcomes(RcCap) ELSE {NoRead} :
         LET res == run_and_check(c, resp, default_timeout, w, r)
         IN  Record(Rec("run_and_check", c, reset_called, res, <<Step(c, res)>>))
    /\ UNCHANGED <<session, reset_called, default_timeout, manual>>

NextRC == RunAndCheck

SpecRC == InitRC /\ [][NextRC]_vars

\* ------------------------------------------------- the matcher on its own
\* one call of list_supported_devices or get_device on every bus content
InitMatch ==
    /\ session = "unopened"
    /\ reset_called = FALSE
    /\ default_timeout = 0
    /\ last = NoCall
    /\ prev = Summary(NoCall)
    /\ nReset = 0
    /\ nResetOk = 0
    /\ nClose = 0
    /\ manual = FALSE
    /\ nOps = 0
    /\ bus \in Buses
    /\ found = NoFound

ListSupportedDevices ==
    /\ found.op = "none"
    /\ \E enum_fails \in BOOLEAN :
         LET res == list_supported_devices(bus, enum_fails)
         IN  found' = [op |-> "list_supported_devices", enum_ok |-> ~enum_fails,
                       busnum |-> 0, addr |-> 0,
                       ret |-> res.ret, devs |-> res.devs, descs |-> res.descs]
    /\ UNCHANGED <<session, reset_called, default_timeout, last, prev,
                   nReset, nResetOk, nClose, manual, nOps, bus>>

GetDevice ==
    /\ found.op = "none"
    /\ \E enum_fails \in BOOLEAN, busnum \in BusNumbers, addr \in Addresses :
         LET res == get_device(bus, enum_fails, busnum, addr)
         IN  found' = [op |-> "get_device", enum_ok |-> ~enum_fails,
                       busnum |-> busnum, addr |-> addr,
                       ret |-> res.ret, devs |-> res.devs, descs |-> res.descs]
    /\ UNCHANGED <<session, reset_called, default_timeout, last, prev,
                   nReset, nResetOk, nClose, manual, nOps, bus>>

NextMatch == ListSupportedDevices \/ GetDevice

SpecMatch == InitMatch /\ [][NextMatch]_vars

TypeOK ==
    /\ session \in {"unopened", "live", "closed", "panicked"}
    /\ reset_called \in BOOLEAN
    /\ default_timeout \in {0} \cup Timeouts
    /\ nOps \in 0..(MaxOps + 1)
    /\ nClose \in 0..1

\* ------------------------------------------------------------ properties
Ended == session \in {"closed", "panicked"}

LastIo(l) == l.io[Len(l.io)]

\* C1 (as stated): whenever the connection handle has been released, the
\* device has been reset exactly once before.
C1_ResetExactlyOnceBeforeRelease ==
    nClose = 1 => nResetOk = 1

\* C1 (amended): the handle is released by the teardown only, after its reset
\* attempt; when the teardown ends normally the transport reset has succeeded
\* exactly once before the release, and when the teardown's reset fails the
\* session panics and the handle is released with the device never reset.
C1_ResetOnceBeforeNormalRelease ==
    nClose = 1 =>
        /\ last.op = "drop"
        /\ LastIo(last) = CloseCall
        /\ Count(last.io, "close") = 1
        /\ session = "closed" => nResetOk = 1 /\ reset_called
        /\ session = "panicked" =>
              /\ nResetOk = 0
              /\ Len(last.io) = 2
              /\ last.io[1] = ResetCall(TRUE)

C1_Witness ==
    /\ session = "closed"
    /\ nClose = 1
    /\ nResetOk = 1
    /\ ~prev.ok

\* C2 (as stated): reset() with reset_called set succeeds without invoking the
\* transport reset, and of two successive reset() calls the second is a no-op
\* success, the two invoking the transport reset at most once.
C2_SecondResetAlwaysNoOp ==
    /\ (last.op = "reset" /\ last.pre_rc) => (last.ret = Ok(0) /\ last.io = <<>>)
    /\ (last.op = "reset" /\ prev.op = "reset") =>
          /\ last.ret = Ok(0)
          /\ last.io = <<>>
          /\ prev.resets + Count(last.io, "reset") <= 1

\* C2 (amended): reset() with reset_called set succeeds without invoking the
\* transport reset; of two successive reset() calls of which the first
\* succeeded, the second is a no-op success and the two invoke the transport
\* reset at most once.
C2_ResetIdempotentAfterSuccess ==
    /\ (last.op = "reset" /\ last.pre_rc) =>
          (last.ret = Ok(0) /\ last.io = <<>> /\ reset_called)
    /\ (last.op = "reset" /\ prev.op = "reset" /\ prev.ok) =>
          /\ last.ret = Ok(0)
          /\ last.io = <<>>
          /\ prev.resets + Count(last.io, "reset") <= 1

C2_Witness ==
    /\ last.op = "reset"
    /\ prev.op = "reset"
    /\ prev.ok
    /\ prev.resets = 1
    /\ last.pre_rc

\* C3: destroying a session on which reset() was never called makes exactly
\* one call of the transport reset, whatever cmd and send_init did before.
C3_TeardownResetsOnce ==
    (last.op = "drop" /\ ~manual) =>
        /\ Count(last.io, "reset") = 1
        /\ last.io[1].fn = "reset"
        /\ nReset = 1

C3_Witness ==
    /\ last.op = "drop"
    /\ ~manual
    /\ prev.op \in {"cmd", "send_init"}
    /\ ~prev.ok
    /\ nReset = 1

\* C4: the connection handle is released exactly once, by the teardown, as
\* the last thing it does (after the reset it attempts); cmd, send_init and
\* reset never release it.
C4_ReleasedOnceAtEnd ==
    /\ nClose <= 1
    /\ session \in {"unopened", "live"} => nClose = 0
    /\ last.op \in {"open", "cmd", "send_init", "reset"} => Count(last.io, "close") = 0
    /\ Ended =>
          /\ nClose = 1
          /\ last.op = "drop"
          /\ Count(last.io, "close") = 1
          /\ LastIo(last) = CloseCall
          /\ ~last.pre_rc => (Len(last.io) = 2 /\ last.io[1].fn = "reset")

C4_Witness ==
    /\ Ended
    /\ nClose = 1
    /\ Len(last.io) = 2
    /\ last.io[1].fn = "reset"
    /\ prev.op \in {"cmd", "send_init", "reset"}

\* C5: when the reset made by the teardown fails the session ends panicked,
\* and a session that ended normally has reset_called set.
C5_TeardownFailureIsFatal ==
    /\ (last.op = "drop" /\ Count(last.io, "reset") = 1 /\ last.io[1].err # "None")
          => session = "panicked"
    /\ session = "closed" => reset_called
    /\ Ended => (session = "panicked" <=> ~reset_called)

C5_Witness ==
    /\ session = "panicked"
    /\ last.op = "drop"
    /\ last.io[1] = ResetCall(TRUE)
    /\ ~reset_called

\* C6: reset() with reset_called clear calls the transport reset once; when
\* that fails it returns UsbReset and the flag stays clear, so that a reset()
\* following it calls the transport reset again; when it succeeds reset()
\* returns Ok and the flag is set.
C6_ResetFailureLeavesFlag ==
    /\ (last.op = "reset" /\ ~last.pre_rc) =>
          /\ Len(last.io) = 1
          /\ last.io[1].fn = "reset"
          /\ last.io[1].err # "None" => (last.ret.tag = "UsbReset" /\ ~reset_called)
          /\ last.io[1].err = "None" => (last.ret = Ok(0) /\ reset_called)
    /\ (last.op = "reset" /\ prev.op = "reset" /\ ~prev.ok) =>
          (~last.pre_rc /\ Count(last.io, "reset") = 1)

C6_Witness ==
    /\ last.op = "reset"
    /\ prev.op = "reset"
    /\ ~prev.ok
    /\ last.io = <<ResetCall(FALSE)>>
    /\ reset_called

\* C7: once reset_called is set no step of the session clears it.
C7_FlagNeverReverts ==
    [][reset_called => reset_called']_vars

C7_Witness ==
    /\ reset_called
    /\ last.pre_rc
    /\ last.op \in {"reset", "drop"}
    /\ prev.op \in {"cmd", "send_init", "reset"}

\* C8: a write that reports fewer bytes than the request is the last transport
\* call of the command (no read, no second write) and the command fails with
\* UsbWritePartial.
C8_PartialWriteStops ==
    last.op \in {"cmd", "send_init"} =>
        \A i \in 1..Len(last.io) :
            (/\ last.io[i].fn = "write_bulk"
             /\ last.io[i].err = "None"
             /\ last.io[i].n < Len(last.io[i].data))
            => (i = Len(last.io) /\ last.ret.tag = "UsbWritePartial")

C8_Witness ==
    /\ last.op = "cmd"
    /\ Len(last.data) > 1
    /\ last.io[1].err = "None"
    /\ last.io[1].n = 1
    /\ last.ret.tag = "UsbWritePartial"

\* C9: cmd writes the request on endpoint 1; a failed write gives UsbWrite and
\* no read; a complete write is followed by a read on endpoint 129, whose
\* failure gives UsbReadResponse and whose success gives Ok(bytes read).
C9_CmdErrorsAndResult ==
    last.op = "cmd" =>
        /\ Len(last.io) \in {1, 2}
        /\ last.io[1].fn = "write_bulk"
        /\ last.io[1].ep = 1
        /\ last.io[1].data = last.data
        /\ last.io[1].timeout = last.timeout
        /\ last.io[1].err # "None" =>
              /\ last.ret.tag = "UsbWrite"
              /\ last.ret.src = last.io[1].err
              /\ Len(last.io) = 1
        /\ (last.io[1].err = "None" /\ last.io[1].n = Len(last.data)) => Len(last.io) = 2
        /\ Len(last.io) = 2 =>
              /\ last.io[2].fn = "read_bulk"
              /\ last.io[2].ep = 129
              /\ last.io[2].timeout = last.timeout
              /\ last.io[2].err # "None" =>
                    (last.ret.tag = "UsbReadResponse" /\ last.ret.src = last.io[2].err)
              /\ last.io[2].err = "None" => last.ret = Ok(last.io[2].n)

C9_Witness ==
    /\ last.op = "cmd"
    /\ Len(last.io) = 2
    /\ last.io[2].err = "None"
    /\ last.io[2].n = 1
    /\ last.io[2].cap > 1
    /\ last.ret = Ok(1)

\* C10: a command of send_init whose read reported 0 or 1 bytes fails with
\* UsbInitInvalid, whatever the response buffer holds, and ends the sequence.
C10_ShortResponseInvalid ==
    last.op = "send_init" =>
        \A i \in 1..Len(last.steps) :
            last.steps[i].rdlen \in {0, 1} =>
                /\ last.steps[i].ret.tag = "UsbInitInvalid"
                /\ i = Len(last.steps)
                /\ last.ret = last.steps[i].ret

C10_Witness ==
    /\ last.op = "send_init"
    /\ Len(last.steps) = 2
    /\ last.steps[2].rdlen = 1
    /\ from_le_bytes(last.steps[2].buf) = 0
    /\ last.ret.tag = "UsbInitInvalid"

\* C11: for a response of at least 2 bytes run_and_check reads the status
\* b0 + 256*b1 from its first two bytes: 0 gives Ok (whatever follows),
\* 0x044f gives UsbInitSignatureFailed(0x044f), any other value gives
\* UsbInitFailed carrying that value.
C11_StatusClassification ==
    (last.op = "run_and_check" /\ last.steps[1].rdlen >= 2) =>
        LET buf  == last.steps[1].buf
            code == buf[1] + 256 * buf[2]
        IN  /\ code = 0 => last.ret = Ok(last.steps[1].rdlen)
            /\ code = 1103 => last.ret = Err("UsbInitSignatureFailed", 1103, "None")
            /\ code \notin {0, 1103} => last.ret = Err("UsbInitFailed", code, "None")

C11_Witness ==
    /\ last.op = "run_and_check"
    /\ last.steps[1].rdlen = 3
    /\ last.steps[1].buf[3] \in PayloadByte
    /\ last.ret = Ok(3)

\* the writes among the transport calls of a command, in order
Writes(io) == SelectSeq(io, LAMBDA c : c.fn = "write_bulk")

\* the command of a step was answered with at least 2 bytes and status 0
StatusZero(st) ==
    /\ st.rdlen >= 2
    /\ st.buf[1] + 256 * st.buf[2] = 0

\* C12: send_init writes at most two commands, [0x01] first and [0x19]
\* second, and writes [0x19] only when [0x01] was answered with status 0.
C12_InitStopsAtFirstFailure ==
    last.op = "send_init" =>
        LET ws == Writes(last.io)
        IN  /\ Len(ws) \in {1, 2}
            /\ ws[1].data = <<1>>
            /\ Len(ws) = 2 => ws[2].data = <<25>>
            /\ Len(ws) = 2 <=> StatusZero(last.steps[1])
            /\ Len(last.steps) = Len(ws)
            /\ \A i \in 1..Len(last.io) : last.io[i].fn \in {"write_bulk", "read_bulk"}

C12_Witness ==
    /\ last.op = "send_init"
    /\ Len(Writes(last.io)) = 1
    /\ last.steps[1].rdlen = 2
    /\ last.steps[1].ret.tag = "UsbInitFailed"

\* C13: send_init succeeds exactly when both commands are answered with
\* status 0; it returns the error of the first command when that fails and
\* the error of the second when the first succeeded and the second failed.
C13_InitResult ==
    last.op = "send_init" =>
        /\ last.ret.tag = "Ok" <=>
              (/\ Len(last.steps) = 2
               /\ StatusZero(last.steps[1])
               /\ StatusZero(last.steps[2]))
        /\ ~StatusZero(last.steps[1]) =>
              (last.ret = last.steps[1].ret /\ last.ret.tag # "Ok")
        /\ (StatusZero(last.steps[1]) /\ ~StatusZero(last.steps[2])) =>
              (last.ret = last.steps[2].ret /\ last.ret.tag # "Ok")

C13_Witness ==
    /\ last.op = "send_init"
    /\ StatusZero(last.steps[1])
    /\ last.steps[2].cmd = <<25>>
    /\ last.steps[2].ret.tag = "UsbInitSignatureFailed"
    /\ last.ret = Err("UsbInitSignatureFailed", 1103, "None")

\* the devices listed at (busnum, addr)
At(busnum, addr) == {i \in 1..Len(bus) : bus[i].bus = busnum /\ bus[i].addr = addr}

\* the identity of the device is the entry of the Supported Identity table
InTable(dev) == dev.vid = 5002 /\ dev.pid = 151

\* C14 (as stated): whatever the bus holds, get_device returns
\* GetDeviceNotFound when no device is at the address, GetDeviceFoundUnsupported
\* when the device there is not in the table, and the device there only when
\* it is in the table.
C14_GetDeviceThreeOutcomes ==
    found.op = "get_device" =>
        LET at == At(found.busnum, found.addr)
        IN  /\ at = {} => found.ret.tag = "GetDeviceNotFound"
            /\ \A i \in at : ~InTable(bus[i]) => found.ret.tag = "GetDeviceFoundUnsupported"
            /\ found.ret.tag = "Ok" =>
                  \E i \in at : InTable(bus[i]) /\ found.devs = <<bus[i]>>

\* C14 (amended): get_device never returns a device that is not in the table;
\* when the enumeration and the descriptor read of the device at the address
\* succeed it returns GetDeviceNotFound, GetDeviceFoundUnsupported or the
\* device as stated; when the enumeration fails it returns ListDevices and
\* when that descriptor read fails DeviceDescription.
C14_GetDeviceOutcomes ==
    found.op = "get_device" =>
        LET at == At(found.busnum, found.addr)
        IN  /\ found.ret.tag = "Ok" =>
                  \E i \in at : InTable(bus[i]) /\ found.devs = <<bus[i]>>
            /\ found.ret.tag # "Ok" => found.devs = <<>>
            /\ ~found.enum_ok => found.ret.tag = "ListDevices"
            /\ (found.enum_ok /\ at = {}) => found.ret.tag = "GetDeviceNotFound"
            /\ found.enum_ok =>
                  \A i \in at :
                     /\ ~bus[i].desc_ok => found.ret.tag = "DeviceDescription"
                     /\ (bus[i].desc_ok /\ ~InTable(bus[i])) =>
                           found.ret.tag = "GetDeviceFoundUnsupported"
                     /\ (bus[i].desc_ok /\ InTable(bus[i])) => found.ret.tag = "Ok"

C14_Witness ==
    /\ found.op = "get_device"
    /\ found.enum_ok
    /\ found.ret.tag = "GetDeviceFoundUnsupported"
    /\ Len(bus) = 2
    /\ InTable(bus[2])
    /\ bus[1].vid = 5002
    /\ At(found.busnum, found.addr) = {1}

\* C15: when the enumeration and every descriptor read succeed,
\* list_supported_devices returns exactly the devices in the table, each once,
\* in the order of the enumeration.
C15_ListExactlySupported ==
    (/\ found.op = "list_supported_devices"
     /\ found.enum_ok
     /\ \A i \in 1..Len(bus) : bus[i].desc_ok)
    => /\ found.ret.tag = "Ok"
       /\ found.devs = SelectSeq(bus, InTable)

C15_Witness ==
    /\ found.op = "list_supported_devices"
    /\ found.ret.tag = "Ok"
    /\ Len(bus) = 2
    /\ bus[1].vid = 5002
    /\ bus[1].pid # 151
    /\ found.devs = <<bus[2]>>

\* C16: when the descriptor of a listed device cannot be read,
\* list_supported_devices fails with DeviceDescription at the first such
\* device, reading no descriptor after it, and returns no device.
C16_ListAbortsOnDescriptorFailure ==
    (/\ found.op = "list_supported_devices"
     /\ found.enum_ok
     /\ \E i \in 1..Len(bus) : ~bus[i].desc_ok)
    => /\ found.ret.tag = "DeviceDescription"
       /\ found.devs = <<>>
       /\ ~bus[found.descs].desc_ok
       /\ \A j \in 1..(found.descs - 1) : bus[j].desc_ok

C16_Witness ==
    /\ found.op = "list_supported_devices"
    /\ found.ret.tag = "DeviceDescription"
    /\ Len(bus) = 2
    /\ InTable(bus[1])
    /\ bus[1].desc_ok
    /\ found.descs = 2

\* C18: a successful open() leaves a live session with reset_called false and
\* default_timeout 1 second; a failed open() returns OpenDevice and leaves no
\* session, and while there is no session no reset and no release is made.
C18_OpenResult ==
    [][(/\ nOps' = nOps + 1
        /\ last'.op = "open")
       => /\ last'.ret.tag \in {"Ok", "OpenDevice"}
          /\ last'.ret.tag = "Ok" =>
                (session' = "live" /\ ~reset_called' /\ default_timeout' = 1)
          /\ last'.ret.tag = "OpenDevice" => session' = "unopened"
          /\ last'.io = <<>>
          /\ session' = "unopened" => (nReset' = 0 /\ nClose' = 0)]_vars

C18_Witness ==
    /\ prev.op = "open"
    /\ ~prev.ok
    /\ last.op = "open"
    /\ last.ret.tag = "Ok"
    /\ session = "live"
    /\ default_timeout = 1
    /\ nReset = 0

\* C19: a cmd or send_init call, failed or not, leaves reset_called,
\* default_timeout and the session as they were and makes no reset and no
\* release; and every cmd, also one that follows a failed transfer, starts
\* with a write that, when complete, is followed by a read.
C19_TransfersLeaveSession ==
    [][(/\ nOps' = nOps + 1
        /\ last'.op \in {"cmd", "send_init"})
       => /\ reset_called' = reset_called
          /\ default_timeout' = default_timeout
          /\ session' = session
          /\ session' = "live"
          /\ nReset' = nReset
          /\ nClose' = nClose
          /\ \A i \in 1..Len(last'.io) : last'.io[i].fn \in {"write_bulk", "read_bulk"}
          /\ last'.op = "cmd" =>
                /\ last'.io[1].fn = "write_bulk"
                /\ (last'.io[1].err = "None" /\ last'.io[1].n = Len(last'.data)) =>
                      (Len(last'.io) = 2 /\ last'.io[2].fn = "read_bulk")]_vars

C19_Witness ==
    /\ last.op = "cmd"
    /\ prev.op \in {"cmd", "send_init"}
    /\ ~prev.ok
    /\ Len(last.io) = 2
    /\ last.io[1].fn = "write_bulk"
    /\ last.io[2].fn = "read_bulk"
    /\ last.ret.tag = "Ok"
    /\ session = "live"

\* C20: in a session reset_called holds exactly when the transport reset has
\* succeeded, which it does at most once; a reset() or teardown made with the
\* flag set does not call the transport reset, one made with the flag clear
\* calls it once.
C20_FlagTracksSuccessfulReset ==
    /\ nResetOk <= 1
    /\ session # "unopened" => (reset_called <=> nResetOk = 1)
    /\ session = "unopened" => (nReset = 0 /\ ~reset_called)
    /\ last.op \in {"reset", "drop"} =>
          /\ last.pre_rc => Count(last.io, "reset") = 0
          /\ ~last.pre_rc => Count(last.io, "reset") = 1
          /\ (reset_called /\ ~last.pre_rc) => CountOk(last.io, "reset") = 1

C20_Witness ==
    /\ last.op = "drop"
    /\ prev.op = "reset"
    /\ ~prev.ok
    /\ nReset = 2
    /\ nResetOk = 1
    /\ reset_called
    /\ session = "closed"
====
